---- MODULE Spec2Model ----
(***************************************************************************)
(* Binary-sensor platform of the PetKit integration                        *)
(* (custom_components/petkit/binary_sensor.py).                            *)
(*                                                                         *)
(* async_setup_entry walks the coordinator's water fountains, feeders and  *)
(* litter boxes, collects entity objects in the local list binary_sensors  *)
(* and hands the list to async_add_entities.  Each entity keeps the id of  *)
(* its device and reads the coordinator's current data on every property   *)
(* access.                                                                 *)
(*                                                                         *)
(* A Python dict is modelled as a sequence in insertion order; the key of  *)
(* a device is its position in the sequence.                               *)
(***************************************************************************)
EXTENDS Integers, Sequences, FiniteSets, TLC

\* Largest number of devices (of all three families together) in the account.
MaxDevices == 2

\* Numeric fields of a poll take the values 0..MaxLevel.
MaxLevel == 2

Samples == 0 .. MaxLevel

\* Device type codes: those the code tests for, and one other per family.
FountainTypes == {"w5", "ctw3"}
FeederTypes == {"d3", "d4", "d4s", "d4sh", "feedermini"}
LitterBoxTypes == {"t3", "t4", "t5", "t6"}

\* What device_detail holds under "state": nothing, a blob without
\* "boxState", or a blob with it.
StateShapes == {"no_state", "state", "state_boxState"}

VARIABLES
    coordinator,     \* coordinator.data: the latest data polled from the cloud
    pc,              \* position of async_setup_entry
    binary_sensors,  \* the local list async_setup_entry builds
    added,           \* the list async_add_entities received (<<>> before)
    addCalls,        \* number of calls of async_add_entities
    processed,       \* per family, the devices whose loop body has completed
    setupData        \* history: coordinator.data as async_setup_entry read it

vars == <<coordinator, pc, binary_sensors, added, addCalls, processed, setupData>>

----
\* Polled data.  One poll is described by the shape of each device (type,
\* keys present) and a sample s that every value field of the poll takes:
\* numeric fields are s, boolean fields are (s is odd).

Flag(s) == s % 2 = 1

Fountain(type, s) ==
    [type |-> type,
     data |-> [lackWarning |-> s,
               status |-> [electricStatus |-> s, runStatus |-> s]]]

Feeder(type, s) ==
    [type |-> type,
     data |-> [state |-> [food |-> s, food1 |-> s, food2 |-> s,
                          batteryPower |-> s, charge |-> s,
                          cameraStatus |-> s, eating |-> s, feeding |-> s],
               cloudProduct |-> [subscribe |-> s]]]

LBState(shape, s) ==
    IF shape = "state_boxState"
    THEN [boxFull |-> Flag(s), sandLack |-> Flag(s), liquidLack |-> Flag(s),
          boxState |-> s]
    ELSE [boxFull |-> Flag(s), sandLack |-> Flag(s), liquidLack |-> Flag(s)]

LBDetail(k3, shape, s) ==
    IF shape = "no_state"
    THEN IF k3 THEN [k3Device |-> [id |-> 1]] ELSE [name |-> "lb"]
    ELSE IF k3 THEN [name |-> "lb", k3Device |-> [id |-> 1], state |-> LBState(shape, s)]
         ELSE [name |-> "lb", state |-> LBState(shape, s)]

LitterBox(type, k3, shape, s) ==
    [type |-> type, manually_paused |-> Flag(s),
     device_detail |-> LBDetail(k3, shape, s)]

HasKey(k, d) == k \in DOMAIN d

\* The shape of a litter box, read back from its record.
ShapeOf(lb) ==
    IF ~HasKey("state", lb.device_detail) THEN "no_state"
    ELSE IF HasKey("boxState", lb.device_detail.state) THEN "state_boxState"
    ELSE "state"

\* How many fountains, feeders and litter boxes an account may hold.
Sizes ==
    {t \in (0 .. MaxDevices) \X (0 .. MaxDevices) \X (0 .. MaxDevices) :
        t[1] + t[2] + t[3] <= MaxDevices}

\* Every account with at most MaxDevices devices, polled with sample s.
PetKitData(s) ==
    UNION {
        {[water_fountains |-> wf, feeders |-> fd, litter_boxes |-> lb] :
            wf \in [1 .. t[1] -> {Fountain(ty, s) : ty \in FountainTypes}],
            fd \in [1 .. t[2] -> {Feeder(ty, s) : ty \in FeederTypes}],
            lb \in [1 .. t[3] -> {LitterBox(ty, k3, sh, s) :
                                     ty \in LitterBoxTypes, k3 \in BOOLEAN,
                                     sh \in StateShapes}]} :
        t \in Sizes}

\* The same devices with the values of another poll.
Repoll(data, s) ==
    [water_fountains |->
        [i \in DOMAIN data.water_fountains |->
            Fountain(data.water_fountains[i].type, s)],
     feeders |->
        [i \in DOMAIN data.feeders |-> Feeder(data.feeders[i].type, s)],
     litter_boxes |->
        [i \in DOMAIN data.litter_boxes |->
            LitterBox(data.litter_boxes[i].type,
                      HasKey("k3Device", data.litter_boxes[i].device_detail),
                      ShapeOf(data.litter_boxes[i]), s)]]

----
\* Entity objects: the class and the device id __init__ stores.

WFWater(wf_id) == [kind |-> "WFWater", wf_id |-> wf_id]
WFElectricStatus(wf_id) == [kind |-> "WFElectricStatus", wf_id |-> wf_id]
WFPumpStatus(wf_id) == [kind |-> "WFPumpStatus", wf_id |-> wf_id]
FoodLevel(feeder_id) == [kind |-> "FoodLevel", feeder_id |-> feeder_id]
BatteryInstalled(feeder_id) == [kind |-> "BatteryInstalled", feeder_id |-> feeder_id]
BatteryCharging(feeder_id) == [kind |-> "BatteryCharging", feeder_id |-> feeder_id]
FoodLevelHopper1(feeder_id) == [kind |-> "FoodLevelHopper1", feeder_id |-> feeder_id]
FoodLevelHopper2(feeder_id) == [kind |-> "FoodLevelHopper2", feeder_id |-> feeder_id]
CameraStatus(feeder_id) == [kind |-> "CameraStatus", feeder_id |-> feeder_id]
Eating(feeder_id) == [kind |-> "Eating", feeder_id |-> feeder_id]
Feeding(feeder_id) == [kind |-> "Feeding", feeder_id |-> feeder_id]
CarePlusSubscription(feeder_id) == [kind |-> "CarePlusSubscription", feeder_id |-> feeder_id]
LBBinFull(lb_id) == [kind |-> "LBBinFull", lb_id |-> lb_id]
LBLitterLack(lb_id) == [kind |-> "LBLitterLack", lb_id |-> lb_id]
LBDeodorizerLack(lb_id) == [kind |-> "LBDeodorizerLack", lb_id |-> lb_id]
LBManuallyPaused(lb_id) == [kind |-> "LBManuallyPaused", lb_id |-> lb_id]
LBBWastePresence(lb_id) == [kind |-> "LBBWastePresence", lb_id |-> lb_id]

----
\* async_setup_entry, one loop body per operator.

\* Variant: WFWater in an else branch of the type test.
FountainEntities_else(wf_id, wf_data) ==
    IF wf_data.type = "ctw3"
    THEN <<WFElectricStatus(wf_id), WFPumpStatus(wf_id)>>
    ELSE <<WFWater(wf_id)>>

\* Lines 36-40: the entities of one water fountain.
FountainEntities(wf_id, wf_data) ==
    <<WFWater(wf_id)>>
    \o (IF wf_data.type = "ctw3"
        THEN <<WFElectricStatus(wf_id), WFPumpStatus(wf_id)>> ELSE <<>>)

\* Variant: FoodLevel only for a feeder that reports food.
FeederEntities_ifFood(feeder_id, feeder_data) ==
    (IF feeder_data.type \notin {"d4s", "d4sh"} /\ feeder_data.data.state.food > 0
     THEN <<FoodLevel(feeder_id)>> ELSE <<>>)
    \o (IF feeder_data.type \in {"d4", "d4s", "d4sh"}
        THEN <<BatteryInstalled(feeder_id)>> ELSE <<>>)
    \o (IF feeder_data.type \in {"d4s", "d4sh"}
        THEN <<FoodLevelHopper1(feeder_id), FoodLevelHopper2(feeder_id)>>
        ELSE <<>>)
    \o (IF feeder_data.type = "d4sh"
        THEN <<CameraStatus(feeder_id), Eating(feeder_id), Feeding(feeder_id),
               CarePlusSubscription(feeder_id)>>
        ELSE <<>>)
    \o (IF feeder_data.type = "d3"
        THEN <<BatteryCharging(feeder_id)>> ELSE <<>>)

\* Variant: the FoodLevel test forgets the d4sh.
FeederEntities_d4sOnly(feeder_id, feeder_data) ==
    (IF feeder_data.type \notin {"d4s"}
     THEN <<FoodLevel(feeder_id)>> ELSE <<>>)
    \o (IF feeder_data.type \in {"d4", "d4s", "d4sh"}
        THEN <<BatteryInstalled(feeder_id)>> ELSE <<>>)
    \o (IF feeder_data.type \in {"d4s", "d4sh"}
        THEN <<FoodLevelHopper1(feeder_id), FoodLevelHopper2(feeder_id)>>
        ELSE <<>>)
    \o (IF feeder_data.type = "d4sh"
        THEN <<CameraStatus(feeder_id), Eating(feeder_id), Feeding(feeder_id),
               CarePlusSubscription(feeder_id)>>
        ELSE <<>>)
    \o (IF feeder_data.type = "d3"
        THEN <<BatteryCharging(feeder_id)>> ELSE <<>>)

\* Variant: BatteryCharging for the d4 as well.
FeederEntities_d4Charging(feeder_id, feeder_data) ==
    (IF feeder_data.type \notin {"d4s", "d4sh"}
     THEN <<FoodLevel(feeder_id)>> ELSE <<>>)
    \o (IF feeder_data.type \in {"d4", "d4s", "d4sh"}
        THEN <<BatteryInstalled(feeder_id)>> ELSE <<>>)
    \o (IF feeder_data.type \in {"d4s", "d4sh"}
        THEN <<FoodLevelHopper1(feeder_id), FoodLevelHopper2(feeder_id)>>
        ELSE <<>>)
    \o (IF feeder_data.type = "d4sh"
        THEN <<CameraStatus(feeder_id), Eating(feeder_id), Feeding(feeder_id),
               CarePlusSubscription(feeder_id)>>
        ELSE <<>>)
    \o (IF feeder_data.type \in {"d3", "d4"}
        THEN <<BatteryCharging(feeder_id)>> ELSE <<>>)

\* Variant: the camera entities for the d4s as well.
FeederEntities_d4sCamera(feeder_id, feeder_data) ==
    (IF feeder_data.type \notin {"d4s", "d4sh"}
     THEN <<FoodLevel(feeder_id)>> ELSE <<>>)
    \o (IF feeder_data.type \in {"d4", "d4s", "d4sh"}
        THEN <<BatteryInstalled(feeder_id)>> ELSE <<>>)
    \o (IF feeder_data.type \in {"d4s", "d4sh"}
        THEN <<FoodLevelHopper1(feeder_id), FoodLevelHopper2(feeder_id)>>
        ELSE <<>>)
    \o (IF feeder_data.type \in {"d4s", "d4sh"}
        THEN <<CameraStatus(feeder_id), Eating(feeder_id), Feeding(feeder_id),
               CarePlusSubscription(feeder_id)>>
        ELSE <<>>)
    \o (IF feeder_data.type = "d3"
        THEN <<BatteryCharging(feeder_id)>> ELSE <<>>)

\* Lines 44-74: the entities of one feeder.
FeederEntities(feeder_id, feeder_data) ==
    (IF feeder_data.type \notin {"d4s", "d4sh"}
     THEN <<FoodLevel(feeder_id)>> ELSE <<>>)
    \o (IF feeder_data.type \in {"d4", "d4s", "d4sh"}
        THEN <<BatteryInstalled(feeder_id)>> ELSE <<>>)
    \o (IF feeder_data.type \in {"d4s", "d4sh"}
        THEN <<FoodLevelHopper1(feeder_id), FoodLevelHopper2(feeder_id)>>
        ELSE <<>>)
    \o (IF feeder_data.type = "d4sh"
        THEN <<CameraStatus(feeder_id), Eating(feeder_id), Feeding(feeder_id),
               CarePlusSubscription(feeder_id)>>
        ELSE <<>>)
    \o (IF feeder_data.type = "d3"
        THEN <<BatteryCharging(feeder_id)>> ELSE <<>>)

\* Variant: LBManuallyPaused for the t4 as well.
LitterBoxEntities_t4Paused(lb_id, lb_data) ==
    LET upTo93 ==
            (IF lb_data.type \in {"t3", "t4", "t6"}
             THEN <<LBBinFull(lb_id), LBLitterLack(lb_id)>> ELSE <<>>)
            \o (IF lb_data.type = "t3" \/ HasKey("k3Device", lb_data.device_detail)
                THEN <<LBDeodorizerLack(lb_id)>> ELSE <<>>)
            \o (IF lb_data.type \in {"t3", "t4"}
                THEN <<LBManuallyPaused(lb_id)>> ELSE <<>>)
    IN  IF ~HasKey("state", lb_data.device_detail)
        THEN [raised |-> TRUE, entities |-> upTo93]
        ELSE [raised |-> FALSE,
              entities |->
                  upTo93 \o (IF HasKey("boxState", lb_data.device_detail.state)
                             THEN <<LBBWastePresence(lb_id)>> ELSE <<>>)]

\* Variant: the Pura X and the Pura Air tests as two separate ifs.
LitterBoxEntities_twoIfs(lb_id, lb_data) ==
    LET upTo93 ==
            (IF lb_data.type \in {"t3", "t4", "t6"}
             THEN <<LBBinFull(lb_id), LBLitterLack(lb_id)>> ELSE <<>>)
            \o (IF lb_data.type = "t3" THEN <<LBDeodorizerLack(lb_id)>> ELSE <<>>)
            \o (IF HasKey("k3Device", lb_data.device_detail)
                THEN <<LBDeodorizerLack(lb_id)>> ELSE <<>>)
            \o (IF lb_data.type = "t3"
                THEN <<LBManuallyPaused(lb_id)>> ELSE <<>>)
    IN  IF ~HasKey("state", lb_data.device_detail)
        THEN [raised |-> TRUE, entities |-> upTo93]
        ELSE [raised |-> FALSE,
              entities |->
                  upTo93 \o (IF HasKey("boxState", lb_data.device_detail.state)
                             THEN <<LBBWastePresence(lb_id)>> ELSE <<>>)]

\* Lines 78-95: the entities of one litter box.  device_detail["state"] on
\* line 94 raises KeyError when the key is missing; what was appended before
\* stays in the list.
LitterBoxEntities(lb_id, lb_data) ==
    LET upTo93 ==
            (IF lb_data.type \in {"t3", "t4", "t6"}
             THEN <<LBBinFull(lb_id), LBLitterLack(lb_id)>> ELSE <<>>)
            \o (IF lb_data.type = "t3" \/ HasKey("k3Device", lb_data.device_detail)
                THEN <<LBDeodorizerLack(lb_id)>> ELSE <<>>)
            \o (IF lb_data.type = "t3"
                THEN <<LBManuallyPaused(lb_id)>> ELSE <<>>)
    IN  IF ~HasKey("state", lb_data.device_detail)
        THEN [raised |-> TRUE, entities |-> upTo93]
        ELSE [raised |-> FALSE,
              entities |->
                  upTo93 \o (IF HasKey("boxState", lb_data.device_detail.state)
                             THEN <<LBBWastePresence(lb_id)>> ELSE <<>>)]

\* A for loop over a dict of devices that cannot raise: bodies i..Len(devs).
RECURSIVE Loop(_, _, _)
Loop(devs, i, family) ==
    IF i > Len(devs) THEN <<>>
    ELSE (IF family = "water_fountains" THEN FountainEntities(i, devs[i])
          ELSE FeederEntities(i, devs[i]))
         \o Loop(devs, i + 1, family)

\* The loop over the litter boxes from box i on: it stops at the first box
\* whose body raises.  done counts the bodies that completed.
RECURSIVE LitterBoxLoop(_, _)
LitterBoxLoop(lbs, i) ==
    IF i > Len(lbs) THEN [raised |-> FALSE, entities |-> <<>>, done |-> 0]
    ELSE LET one == LitterBoxEntities(i, lbs[i])
         IN  IF one.raised
             THEN [raised |-> TRUE, entities |-> one.entities, done |-> 0]
             ELSE LET rest == LitterBoxLoop(lbs, i + 1)
                  IN  [raised |-> rest.raised,
                       entities |-> one.entities \o rest.entities,
                       done |-> rest.done + 1]

\* async_setup_entry as a function of coordinator.data: whether it raised,
\* and binary_sensors as it stood when the function was left.
SetupResult(data) ==
    LET r == LitterBoxLoop(data.litter_boxes, 1)
    IN  [raised |-> r.raised,
         binary_sensors |->
             Loop(data.water_fountains, 1, "water_fountains")
             \o Loop(data.feeders, 1, "feeders")
             \o r.entities]

Init ==
    /\ \E s \in Samples : \E data \in PetKitData(s) :
          /\ coordinator = [data |-> data]
          /\ setupData = data
    /\ pc = "water_fountains"
    /\ binary_sensors = <<>>
    /\ added = <<>>
    /\ addCalls = 0
    /\ processed = [water_fountains |-> 0, feeders |-> 0, litter_boxes |-> 0]

\* Lines 34-40.
SetupFountains ==
    /\ pc = "water_fountains"
    /\ binary_sensors' =
          binary_sensors \o Loop(coordinator.data.water_fountains, 1, "water_fountains")
    /\ processed' = [processed EXCEPT
                        !.water_fountains = Len(coordinator.data.water_fountains)]
    /\ pc' = "feeders"
    /\ UNCHANGED <<coordinator, added, addCalls, setupData>>

\* Lines 42-74.
SetupFeeders ==
    /\ pc = "feeders"
    /\ binary_sensors' =
          binary_sensors \o Loop(coordinator.data.feeders, 1, "feeders")
    /\ processed' = [processed EXCEPT !.feeders = Len(coordinator.data.feeders)]
    /\ pc' = "litter_boxes"
    /\ UNCHANGED <<coordinator, added, addCalls, setupData>>

\* Variant: the KeyError is caught and the setup carries on to line 97.
SetupLitterBoxes_caught ==
    /\ pc = "litter_boxes"
    /\ LET r == LitterBoxLoop(coordinator.data.litter_boxes, 1)
       IN  /\ binary_sensors' = binary_sensors \o r.entities
           /\ processed' = [processed EXCEPT !.litter_boxes = r.done]
           /\ pc' = "add"
    /\ UNCHANGED <<coordinator, added, addCalls, setupData>>

\* Lines 77-95.  A KeyError leaves async_setup_entry before line 97.
SetupLitterBoxes ==
    /\ pc = "litter_boxes"
    /\ LET r == LitterBoxLoop(coordinator.data.litter_boxes, 1)
       IN  /\ binary_sensors' = binary_sensors \o r.entities
           /\ processed' = [processed EXCEPT !.litter_boxes = r.done]
           /\ pc' = IF r.raised THEN "raised" ELSE "add"
    /\ UNCHANGED <<coordinator, added, addCalls, setupData>>

\* Line 97.
AddEntities ==
    /\ pc = "add"
    /\ added' = binary_sensors
    /\ addCalls' = addCalls + 1
    /\ pc' = "done"
    /\ UNCHANGED <<coordinator, binary_sensors, processed, setupData>>

\* The coordinator polls the cloud again: same devices, new values.
\* async_setup_entry has no await, so no poll lands inside it.
Refresh ==
    /\ pc = "done"
    /\ \E s \in Samples :
          coordinator' = [coordinator EXCEPT !.data = Repoll(coordinator.data, s)]
    /\ UNCHANGED <<pc, binary_sensors, added, addCalls, processed, setupData>>

Next ==
    \/ SetupFountains
    \/ SetupFeeders
    \/ SetupLitterBoxes
    \/ AddEntities
    \/ Refresh

Spec == Init /\ [][Next]_vars

----
\* Entity properties.

FountainKinds == {"WFWater", "WFElectricStatus", "WFPumpStatus"}
FeederKinds ==
    {"FoodLevel", "BatteryInstalled", "BatteryCharging", "FoodLevelHopper1",
     "FoodLevelHopper2", "CameraStatus", "Eating", "Feeding",
     "CarePlusSubscription"}
LitterBoxKinds ==
    {"LBBinFull", "LBLitterLack", "LBDeodorizerLack", "LBManuallyPaused",
     "LBBWastePresence"}

\* The xx_data properties: the device is looked up in the coordinator's
\* current data on every access.
wf_data(self) == coordinator.data.water_fountains[self.wf_id]
\* Variant: the entity reads the device as it was when the entity was built.
feeder_data_cached(self) == setupData.feeders[self.feeder_id]
feeder_data(self) == coordinator.data.feeders[self.feeder_id]
lb_data(self) == coordinator.data.litter_boxes[self.lb_id]

\* The body of each class's is_on, as a function of what its xx_data
\* property returned.
IsOnOf(kind, d) ==
    CASE kind = "WFWater" -> d.data.lackWarning = 1
      [] kind = "FoodLevel" ->
            IF d.type = "d3" THEN d.data.state.food < 2
            ELSE d.data.state.food = 0
      [] kind = "BatteryInstalled" -> d.data.state.batteryPower = 1
      [] kind = "BatteryCharging" -> d.data.state.charge > 1
      [] kind = "LBBinFull" -> d.device_detail.state.boxFull
      [] kind = "LBLitterLack" -> d.device_detail.state.sandLack
      [] kind = "LBDeodorizerLack" -> d.device_detail.state.liquidLack
      [] kind = "LBManuallyPaused" -> d.manually_paused
      [] kind = "FoodLevelHopper1" -> d.data.state.food1 < 1
      [] kind = "FoodLevelHopper2" -> d.data.state.food2 < 1
      [] kind = "CameraStatus" -> d.data.state.cameraStatus = 1
      [] kind = "Eating" -> d.data.state.eating = 1
      [] kind = "Feeding" -> d.data.state.feeding = 1
      [] kind = "LBBWastePresence" -> ~(d.device_detail.state.boxState = 1)
      [] kind = "CarePlusSubscription" -> d.data.cloudProduct.subscribe = 1
      [] kind = "WFElectricStatus" -> d.data.status.electricStatus > 0
      [] kind = "WFPumpStatus" -> d.data.status.runStatus = 1

\* The body of each class's icon.
IconOf(kind, d) ==
    CASE kind = "WFWater" ->
            IF d.data.lackWarning = 1 THEN "mdi:water-alert" ELSE "mdi:water"
      [] kind = "FoodLevel" ->
            IF d.type = "d3"
            THEN IF d.data.state.food < 2
                 THEN "mdi:food-drumstick-off" ELSE "mdi:food-drumstick"
            ELSE IF d.data.state.food = 0
                 THEN "mdi:food-drumstick-off" ELSE "mdi:food-drumstick"
      [] kind = "BatteryInstalled" -> "mdi:battery"
      [] kind = "BatteryCharging" -> "mdi:battery"
      [] kind = "LBBinFull" -> "mdi:delete"
      [] kind = "LBLitterLack" -> "mdi:landslide"
      [] kind = "LBDeodorizerLack" ->
            IF HasKey("k3Device", d.device_detail) THEN "mdi:cup" ELSE "mdi:spray"
      [] kind = "LBManuallyPaused" -> "mdi:pause"
      [] kind = "FoodLevelHopper1" ->
            IF d.data.state.food1 = 0
            THEN "mdi:food-drumstick-off" ELSE "mdi:food-drumstick"
      [] kind = "FoodLevelHopper2" ->
            IF d.data.state.food2 = 0
            THEN "mdi:food-drumstick-off" ELSE "mdi:food-drumstick"
      [] kind = "CameraStatus" ->
            IF d.data.state.cameraStatus = 1 THEN "mdi:cctv" ELSE "mdi:cctv-off"
      [] kind = "Eating" -> "mdi:silverware-fork-knife"
      [] kind = "Feeding" -> "mdi:shaker-outline"
      [] kind = "LBBWastePresence" ->
            IF d.device_detail.state.boxState = 1
            THEN "mdi:inbox" ELSE "mdi:inbox-remove"
      [] kind = "CarePlusSubscription" ->
            IF d.data.cloudProduct.subscribe = 1
            THEN "mdi:check-circle" ELSE "mdi:cancel"
      [] kind = "WFElectricStatus" ->
            IF IsOnOf(kind, d) THEN "mdi:power-plug" ELSE "mdi:power-plug-off"
      [] kind = "WFPumpStatus" ->
            IF IsOnOf(kind, d) THEN "mdi:water-pump" ELSE "mdi:water-pump-off"

\* What self.wf_data, self.feeder_data or self.lb_data gives the entity.
DeviceData(self) ==
    IF self.kind \in FountainKinds THEN wf_data(self)
    ELSE IF self.kind \in FeederKinds THEN feeder_data(self)
    ELSE lb_data(self)

is_on(self) == IsOnOf(self.kind, DeviceData(self))
icon(self) == IconOf(self.kind, DeviceData(self))

----
\* Properties.

\* How often the entity e occurs in binary_sensors.
Count(e) == Cardinality({k \in DOMAIN binary_sensors : binary_sensors[k] = e})

\* The device id an entity stores.
DeviceId(e) ==
    IF e.kind \in FountainKinds THEN e.wf_id
    ELSE IF e.kind \in FeederKinds THEN e.feeder_id
    ELSE e.lb_id

\* A list of entities as its sequence of (entity kind, device id) pairs.
Pairs(list) == [k \in DOMAIN list |-> <<list[k].kind, DeviceId(list[k])>>]

FountainsDone == pc # "water_fountains"
FeedersDone == pc \notin {"water_fountains", "feeders"}
LitterBoxesDone == pc \in {"add", "done"}

FeederType(i) == setupData.feeders[i].type
LitterBoxType(i) == setupData.litter_boxes[i].type

\* The entities of feeder i in binary_sensors.
FeederEntityCount(i) ==
    Cardinality({k \in DOMAIN binary_sensors :
                    /\ binary_sensors[k].kind \in FeederKinds
                    /\ binary_sensors[k].feeder_id = i})

\* C1: the entities async_setup_entry instantiates depend on each device's
\* type and on which of the keys "k3Device" and "boxState" are present, not
\* on any state value: a setup over the data of any other poll of the same
\* devices (same types, same keys, other values) ends the same way, with the
\* same sequence of (entity kind, device id) pairs.
C1_EntitiesIgnoreStateValues ==
    pc \in {"done", "raised"} =>
        \A s \in Samples :
            LET other == SetupResult(Repoll(setupData, s))
            IN  /\ other.raised = (pc = "raised")
                /\ Pairs(other.binary_sensors) = Pairs(binary_sensors)

\* C1 witness: a completed setup with a feeder and a litter box, and a poll
\* of the same devices whose values differ.
C1_Witness ==
    /\ pc = "done"
    /\ Len(setupData.feeders) > 0
    /\ Len(setupData.litter_boxes) > 0
    /\ Len(added) > 1
    /\ \E s \in Samples : Repoll(setupData, s) # setupData

\* C2: after any sequence of refreshes every registered entity's is_on and
\* icon are the values computed from the coordinator's current data for the
\* device id the entity stores; the entity holds its class and that id and
\* nothing else.
C2_EntitiesReadLatestData ==
    pc = "done" =>
        \A k \in DOMAIN added :
            LET e == added[k]
                latest ==
                    IF e.kind \in FountainKinds
                    THEN coordinator.data.water_fountains[DeviceId(e)]
                    ELSE IF e.kind \in FeederKinds
                         THEN coordinator.data.feeders[DeviceId(e)]
                         ELSE coordinator.data.litter_boxes[DeviceId(e)]
            IN  /\ is_on(e) = IsOnOf(e.kind, latest)
                /\ icon(e) = IconOf(e.kind, latest)
                /\ Cardinality(DOMAIN e) = 2

\* C2 witness: a refresh has changed the data since the setup, and a feeder
\* entity reports a value that differs from the one of the setup-time data.
C2_Witness ==
    /\ pc = "done"
    /\ coordinator.data # setupData
    /\ \E k \in DOMAIN added :
          /\ added[k].kind \in FeederKinds
          /\ is_on(added[k])
                # IsOnOf(added[k].kind, setupData.feeders[added[k].feeder_id])
          /\ icon(added[k])
                # IconOf(added[k].kind, setupData.feeders[added[k].feeder_id])

\* C3: once the feeder loop has run, every feeder has exactly one FoodLevel
\* if its type is neither d4s nor d4sh and none otherwise, and exactly one
\* FoodLevelHopper1 and one FoodLevelHopper2 if its type is d4s or d4sh and
\* none otherwise: one of the two representations, never both, never neither.
C3_FoodLevelOrHoppers ==
    FeedersDone =>
        \A i \in DOMAIN setupData.feeders :
            LET twin == FeederType(i) \in {"d4s", "d4sh"}
            IN  /\ Count(FoodLevel(i)) = (IF twin THEN 0 ELSE 1)
                /\ Count(FoodLevelHopper1(i)) = (IF twin THEN 1 ELSE 0)
                /\ Count(FoodLevelHopper2(i)) = (IF twin THEN 1 ELSE 0)
                /\ (Count(FoodLevel(i)) = 1) # (Count(FoodLevelHopper1(i)) = 1)

\* C3 witness: the feeder loop has run over a d4sh and a single-hopper feeder.
C3_Witness ==
    /\ FeedersDone
    /\ \E i, j \in DOMAIN setupData.feeders :
          /\ FeederType(i) = "d4sh" /\ Count(FoodLevelHopper2(i)) = 1
          /\ FeederType(j) = "feedermini" /\ Count(FoodLevel(j)) = 1

\* C4: once the feeder loop has run, every feeder has exactly one
\* BatteryInstalled if its type is d4, d4s or d4sh and none otherwise, exactly
\* one BatteryCharging if its type is d3 and none otherwise, and never both.
C4_BatteryEntities ==
    FeedersDone =>
        \A i \in DOMAIN setupData.feeders :
            /\ Count(BatteryInstalled(i))
                  = (IF FeederType(i) \in {"d4", "d4s", "d4sh"} THEN 1 ELSE 0)
            /\ Count(BatteryCharging(i)) = (IF FeederType(i) = "d3" THEN 1 ELSE 0)
            /\ ~(Count(BatteryInstalled(i)) > 0 /\ Count(BatteryCharging(i)) > 0)

\* C4 witness: the feeder loop has run over a d4 and a d3.
C4_Witness ==
    /\ FeedersDone
    /\ \E i, j \in DOMAIN setupData.feeders :
          /\ FeederType(i) = "d4" /\ Count(BatteryInstalled(i)) = 1
          /\ FeederType(j) = "d3" /\ Count(BatteryCharging(j)) = 1

\* C5: once the feeder loop has run, every feeder has exactly one each of
\* CameraStatus, Eating, Feeding and CarePlusSubscription if its type is d4sh
\* and none of them otherwise; a d4sh has seven entities, a d4s three.
C5_D4shEntities ==
    FeedersDone =>
        \A i \in DOMAIN setupData.feeders :
            LET n == IF FeederType(i) = "d4sh" THEN 1 ELSE 0
            IN  /\ Count(CameraStatus(i)) = n
                /\ Count(Eating(i)) = n
                /\ Count(Feeding(i)) = n
                /\ Count(CarePlusSubscription(i)) = n
                /\ FeederType(i) = "d4sh" => FeederEntityCount(i) = 7
                /\ FeederType(i) = "d4s" => FeederEntityCount(i) = 3

\* C5 witness: the feeder loop has run over a d4sh and a d4s.
C5_Witness ==
    /\ FeedersDone
    /\ \E i, j \in DOMAIN setupData.feeders :
          /\ FeederType(i) = "d4sh" /\ FeederEntityCount(i) = 7
          /\ FeederType(j) = "d4s" /\ FeederEntityCount(j) = 3

\* C6: once the fountain loop has run, every water fountain has exactly one
\* WFWater whatever its type, and exactly one WFElectricStatus and one
\* WFPumpStatus if its type is ctw3 and none otherwise.
C6_FountainEntities ==
    FountainsDone =>
        \A i \in DOMAIN setupData.water_fountains :
            LET n == IF setupData.water_fountains[i].type = "ctw3" THEN 1 ELSE 0
            IN  /\ Count(WFWater(i)) = 1
                /\ Count(WFElectricStatus(i)) = n
                /\ Count(WFPumpStatus(i)) = n

\* C6 witness: the fountain loop has run over a ctw3 and another fountain.
C6_Witness ==
    /\ FountainsDone
    /\ \E i, j \in DOMAIN setupData.water_fountains :
          /\ setupData.water_fountains[i].type = "ctw3"
          /\ Count(WFPumpStatus(i)) = 1
          /\ setupData.water_fountains[j].type = "w5"
          /\ Count(WFWater(j)) = 1

SomeBoxFails ==
    \E i \in DOMAIN setupData.litter_boxes :
        ~HasKey("state", setupData.litter_boxes[i].device_detail)

\* C9: async_add_entities is called at most once; when it has been called,
\* every fountain, feeder and litter box has been processed and it received
\* the whole of binary_sensors; when a litter box has no "state" the setup
\* ends raised, async_add_entities is never called and nothing is registered,
\* whatever was instantiated before.
C9_AllOrNothing ==
    /\ addCalls <= 1
    /\ addCalls = 0 => added = <<>>
    /\ addCalls = 1 =>
          /\ pc = "done"
          /\ processed.water_fountains = Len(setupData.water_fountains)
          /\ processed.feeders = Len(setupData.feeders)
          /\ processed.litter_boxes = Len(setupData.litter_boxes)
          /\ added = binary_sensors
          /\ added = SetupResult(setupData).binary_sensors
    /\ pc = "raised" => addCalls = 0 /\ added = <<>>
    /\ SomeBoxFails => addCalls = 0 /\ pc # "done"
    /\ (pc = "raised") => SomeBoxFails

\* C9 witness: the setup ended raised at a litter box after it had processed
\* another device and instantiated entities for it.
C9_Witness ==
    /\ pc = "raised"
    /\ processed.water_fountains + processed.feeders + processed.litter_boxes > 0
    /\ Len(binary_sensors) > 0
    /\ added = <<>>

====
